---- MODULE Spec2Model ----
(***************************************************************************)
(* Synthesis of the NSE proof-of-replication circuit                       *)
(* (storage-proofs/porep/src/nse/circuit/circuit.rs).                      *)
(*                                                                         *)
(* The state is the constraint system under construction (public inputs,   *)
(* private witnesses, constraints, each in allocation order), the circuit  *)
(* instance being consumed, and the position of NseCircuit::synthesize.    *)
(* The first synthesis runs on the circuit built from an honest proof; a   *)
(* second synthesis, on a fresh constraint system, runs on a circuit whose *)
(* data differs from the honest one in one place.                          *)
(***************************************************************************)
EXTENDS Integers, Sequences, FiniteSets, TLC

\* Bounds of the model.
MaxExpanderLayers == 2
MaxButterflyLayers == 2
MaxLayerProofs == 2
MaxArity == 3
Degree == 2

(***************************************************************************)
(* Field elements.  A value is a tuple of naturals in a prefix code: a raw *)
(* element <<0, n>>, or the digest <<tag, k>> followed by its k arguments. *)
(* Digests of different arguments are different tuples, which is the       *)
(* collision resistance the hash gadgets are used for.  An absent          *)
(* Option value is the empty tuple.                                        *)
(***************************************************************************)
None == <<>>
Raw(n) == <<0, n>>
Zero == Raw(0)

RECURSIVE Flat(_)
Flat(args) == IF args = <<>> THEN <<>> ELSE Head(args) \o Flat(Tail(args))

Digest(tag, args) ==
  IF \E k \in 1..Len(args) : args[k] = None THEN None
  ELSE <<tag, Len(args)>> \o Flat(args)

Min(a, b) == IF a < b THEN a ELSE b

\* The Merkle-Damgard compression of a sequence, arity elements at a time.
RECURSIVE HmdFold(_, _, _)
HmdFold(acc, rest, a) ==
  IF rest = <<>> THEN acc
  ELSE HmdFold(Digest(5, <<acc>> \o SubSeq(rest, 1, Min(a, Len(rest)))),
               SubSeq(rest, Min(a, Len(rest)) + 1, Len(rest)), a)

hash_md(elements, a) == HmdFold(Zero, elements, a)

\* pad: right-pad with the zero element to a multiple of the arity.
RECURSIVE pad(_, _)
pad(elements, a) ==
  IF Len(elements) % a = 0 THEN elements ELSE pad(Append(elements, Zero), a)

\* Label derivation, one variant per layer class.
first_layer_leaf(replica_id, challenge, layer) ==
  Digest(1, <<replica_id, Raw(challenge), Raw(layer)>>)

expander_layer_leaf(replica_id, challenge, layer, parents) ==
  Digest(2, <<replica_id, Raw(challenge), Raw(layer)>> \o parents)

butterfly_layer_leaf(replica_id, challenge, layer, parents) ==
  Digest(3, <<replica_id, Raw(challenge), Raw(layer)>> \o parents)

last_layer_leaf(replica_id, challenge, layer, parents) ==
  Digest(4, <<replica_id, Raw(challenge), Raw(layer)>> \o parents)

(***************************************************************************)
(* Config and the data of an honest proof.                                 *)
(***************************************************************************)
Configs ==
  [num_expander_layers : 0..MaxExpanderLayers,
   num_butterfly_layers : 0..MaxButterflyLayers,
   degree_expander : {Degree},
   degree_butterfly : {Degree}]

num_layers(cfg) == 1 + cfg.num_expander_layers + cfg.num_butterfly_layers + 1

\* The challenge of layer `layer` (from 1) in layer proof lpi (from 0).
Challenge(cfg, lpi, layer) == lpi * num_layers(cfg) + layer - 1

ReplicaId == Raw(7)
CommD == Digest(6, <<Raw(0)>>)
LayerRoot(layer) == Digest(7, <<Raw(layer)>>)

DataLeaf(lpi, layer) == Raw(1000 + 100 * lpi + 10 * layer)
ParentLeaf(lpi, layer, j) == Raw(2000 + 100 * lpi + 10 * layer + j)

\* A Merkle path, by the leaf and the root it authenticates.
Path(leaf, root) == [leaf |-> leaf, root |-> root]

NativeLabel(cls, cfg, lpi, layer, parents) ==
  CASE cls = "first" -> first_layer_leaf(ReplicaId, Challenge(cfg, lpi, layer), layer)
    [] cls = "expander" ->
         expander_layer_leaf(ReplicaId, Challenge(cfg, lpi, layer), layer, parents)
    [] cls = "butterfly" ->
         butterfly_layer_leaf(ReplicaId, Challenge(cfg, lpi, layer), layer, parents)
    [] OTHER -> last_layer_leaf(ReplicaId, Challenge(cfg, lpi, layer), layer, parents)

HonestNodeProof(cls, cfg, lpi, layer) ==
  LET n == IF cls = "first" THEN 0
           ELSE IF cls = "expander" THEN cfg.degree_expander
           ELSE cfg.degree_butterfly
      parents == [j \in 1..n |-> [index |-> j - 1, leaf |-> ParentLeaf(lpi, layer, j)]]
      leaves == [j \in 1..n |-> parents[j].leaf]
  IN [challenge |-> Challenge(cfg, lpi, layer),
      data_path |-> Path(DataLeaf(lpi, layer), CommD),
      data_leaf |-> DataLeaf(lpi, layer),
      layer_path |-> Path(NativeLabel(cls, cfg, lpi, layer, leaves), LayerRoot(layer)),
      parents |-> parents]

HonestLayerProof(cfg, lpi) ==
  [first_layer_proof |-> HonestNodeProof("first", cfg, lpi, 1),
   expander_layer_proofs |->
     [i \in 1..cfg.num_expander_layers |-> HonestNodeProof("expander", cfg, lpi, i + 1)],
   butterfly_layer_proofs |->
     [i \in 1..cfg.num_butterfly_layers |->
        HonestNodeProof("butterfly", cfg, lpi, cfg.num_expander_layers + 1 + i)],
   last_layer_proof |-> HonestNodeProof("last", cfg, lpi, num_layers(cfg))]

HonestCommLayers(cfg) == [l \in 1..num_layers(cfg) |-> LayerRoot(l)]

HonestCircuit(cfg, nproofs, a) ==
  [replica_id |-> ReplicaId,
   comm_r |-> hash_md(pad(HonestCommLayers(cfg), a), a),
   comm_d |-> CommD,
   layer_proofs |-> [k \in 1..nproofs |-> HonestLayerProof(cfg, k - 1)],
   comm_layers |-> HonestCommLayers(cfg)]

(***************************************************************************)
(* Circuits that differ from the honest one in one place.                  *)
(***************************************************************************)
\* Another value of the same shape (a flipped bit).
Flip(v) == IF v = None THEN Zero ELSE [v EXCEPT ![Len(v)] = @ + 1]

Dev(kind, target, l, cls, n, j) ==
  [kind |-> kind, target |-> target, lp |-> l, cls |-> cls, i |-> n, j |-> j]

NoDev == Dev("none", "", 0, "", 0, 0)

\* The node proofs of a layer proof: class and index within the class.
Nodes(cfg) ==
  {<<"first", 0>>, <<"last", 0>>}
    \cup {<<"expander", n>> : n \in 0..cfg.num_expander_layers - 1}
    \cup {<<"butterfly", n>> : n \in 0..cfg.num_butterfly_layers - 1}

NodeDevs(cfg, nproofs, kinds) ==
  {Dev(k, "data_leaf", l, nd[1], nd[2], 0) :
     k \in kinds, l \in 0..nproofs - 1, nd \in Nodes(cfg)}
    \cup {Dev(k, "parent", l, nd[1], nd[2], j) :
            k \in kinds, l \in 0..nproofs - 1,
            nd \in {x \in Nodes(cfg) : x[1] # "first"}, j \in {1, Degree}}

\* Absent private data a constraint system that evaluates nothing is run on.
BlankDevs(cfg) ==
  {Dev("absent", "private", 0, "", 0, 0)}
    \cup {Dev("absent", "comm_layer", 0, "", n, 0) : n \in 0..num_layers(cfg) - 1}

AbsentPrivateDevs(cfg, nproofs) == BlankDevs(cfg) \cup NodeDevs(cfg, nproofs, {"absent"})

Deviations(cfg, nproofs) ==
  {NoDev, Dev("truncate", "comm_layers", 0, "", 0, 0)}
    \cup {Dev("absent", t, 0, "", 0, 0) : t \in {"replica_id", "comm_d", "comm_r"}}
    \cup AbsentPrivateDevs(cfg, nproofs)
    \cup {Dev("tamper", "comm_r", 0, "", 0, 0)}
    \cup {Dev("tamper", "comm_layer", 0, "", n, 0) : n \in 0..num_layers(cfg) - 1}
    \cup NodeDevs(cfg, nproofs, {"tamper"})
    \cup {Dev("tamper", "layer_leaf", l, nd[1], nd[2], 0) :
            l \in 0..nproofs - 1, nd \in Nodes(cfg)}

Change(d, v) == IF d.kind = "absent" THEN None ELSE Flip(v)

ApplyNode(np, d) ==
  CASE d.target = "data_leaf" -> [np EXCEPT !.data_leaf = Change(d, @)]
    [] d.target = "parent" -> [np EXCEPT !.parents[d.j].leaf = Change(d, @)]
    [] d.target = "layer_leaf" -> [np EXCEPT !.layer_path.leaf = Change(d, @)]
    [] OTHER -> np

ApplyLayerProof(p, d) ==
  CASE d.cls = "first" -> [p EXCEPT !.first_layer_proof = ApplyNode(@, d)]
    [] d.cls = "expander" ->
         [p EXCEPT !.expander_layer_proofs[d.i + 1] = ApplyNode(@, d)]
    [] d.cls = "butterfly" ->
         [p EXCEPT !.butterfly_layer_proofs[d.i + 1] = ApplyNode(@, d)]
    [] OTHER -> [p EXCEPT !.last_layer_proof = ApplyNode(@, d)]

BlankNode(np) ==
  [np EXCEPT !.data_leaf = None,
             !.parents = [j \in 1..Len(np.parents) |-> [np.parents[j] EXCEPT !.leaf = None]]]

BlankLayerProof(p) ==
  [first_layer_proof |-> BlankNode(p.first_layer_proof),
   expander_layer_proofs |->
     [n \in 1..Len(p.expander_layer_proofs) |-> BlankNode(p.expander_layer_proofs[n])],
   butterfly_layer_proofs |->
     [n \in 1..Len(p.butterfly_layer_proofs) |-> BlankNode(p.butterfly_layer_proofs[n])],
   last_layer_proof |-> BlankNode(p.last_layer_proof)]

ApplyDev(c, d) ==
  CASE d.kind = "none" -> c
    [] d.kind = "truncate" ->
         [c EXCEPT !.comm_layers = SubSeq(@, 1, Len(@) - 1)]
    [] d.target = "replica_id" -> [c EXCEPT !.replica_id = Change(d, @)]
    [] d.target = "comm_d" -> [c EXCEPT !.comm_d = Change(d, @)]
    [] d.target = "comm_r" -> [c EXCEPT !.comm_r = Change(d, @)]
    [] d.target = "comm_layer" -> [c EXCEPT !.comm_layers[d.i + 1] = Change(d, @)]
    [] d.target = "private" ->
         [c EXCEPT !.comm_layers = [l \in 1..Len(@) |-> None],
                   !.layer_proofs = [k \in 1..Len(@) |-> BlankLayerProof(@[k])]]
    [] OTHER -> [c EXCEPT !.layer_proofs[d.lp + 1] = ApplyLayerProof(@, d)]

(***************************************************************************)
(* The constraint system.                                                  *)
(***************************************************************************)
VARIABLES
  config,                  \* public_params.config
  arity,                   \* PoseidonMDArity::to_usize()
  circuit,                 \* the NseCircuit being synthesized
  evaluating,              \* whether the constraint system evaluates value closures
  deviation,               \* how `circuit` differs from the honest circuit
  run,                     \* 1: first synthesis, 2: second synthesis
  prev,                    \* outcome of the first synthesis
  pc,                      \* position in synthesize
  lp,                      \* index of the layer proof being synthesized
  li,                      \* index within the expander / butterfly proofs
  cs,                      \* inputs, aux, constraints, in allocation order
  comm_layers_nums,        \* handles of the allocated comm_layers
  comm_layers_nums_padded, \* the same, padded
  reads,                   \* the comm_layers_nums entries indexed so far
  result                   \* "running", "Ok", "AssignmentMissing", "panic"

vars ==
  <<config, arity, circuit, evaluating, deviation, run, prev, pc, lp, li, cs,
    comm_layers_nums, comm_layers_nums_padded, reads, result>>

instance == <<config, arity, circuit, evaluating, deviation, run, prev>>

EmptyCS == [inputs |-> <<>>, aux |-> <<>>, constraints |-> <<>>]

\* The value assigned to the variable named `name`.
Val(c, name) ==
  LET k == CHOOSE k \in 1..Len(c.aux) : c.aux[k].name = name IN c.aux[k].val

\* Synthesis so far: the constraint system and whether an error occurred.
St(c) == [cs |-> c, err |-> "ok"]

\* Variant of alloc: an absent value is allocated without an error.
alloc_unchecked(st, name, value) ==
  IF st.err # "ok" THEN st
  ELSE [st EXCEPT !.cs.aux =
          Append(@, [name |-> name, val |-> IF evaluating THEN value ELSE None])]

\* num::AllocatedNum::alloc with a closure yielding `value` or AssignmentMissing.
alloc(st, name, value) ==
  IF st.err # "ok" THEN st
  ELSE IF evaluating /\ value = None THEN [st EXCEPT !.err = "AssignmentMissing"]
  ELSE [st EXCEPT !.cs.aux =
          Append(@, [name |-> name, val |-> IF evaluating THEN value ELSE None])]

\* AllocatedNum::inputize: a public input equal to the variable `of`.
inputize(st, name, of) ==
  IF st.err # "ok" THEN st
  ELSE [st EXCEPT !.cs.inputs = Append(@, [name |-> name, val |-> Val(st.cs, of)])]

\* Variant of pack_into_input: the input is allocated only when values are known.
pack_into_input_if_known(st, name, challenge) ==
  IF st.err # "ok" \/ ~evaluating THEN st
  ELSE [st EXCEPT !.cs.inputs = Append(@, [name |-> name, val |-> Raw(challenge)])]

\* UInt64::alloc followed by pack_into_input.
pack_into_input(st, name, challenge) ==
  IF st.err # "ok" THEN st
  ELSE [st EXCEPT !.cs.inputs =
          Append(@, [name |-> name,
                     val |-> IF evaluating THEN Raw(challenge) ELSE None])]

enforce(st, kind, name, a, b, path) ==
  IF st.err # "ok" THEN st
  ELSE [st EXCEPT !.cs.constraints =
          Append(@, [kind |-> kind, name |-> name, a |-> a, b |-> b, path |-> path])]

\* Variant of equal: the equality is not enforced.
equal_unenforced(st, name, a, b) == st

\* constraint::equal
equal(st, name, a, b) == enforce(st, "equal", name, a, b, Path(None, None))

\* por::enforce_inclusion: `path` authenticates `leaf` against `root`.
enforce_inclusion(st, name, path, root, leaf) ==
  enforce(st, "inclusion", name, root, leaf, path)

Holds(c, con) ==
  IF con.kind = "equal" THEN Val(c, con.a) = Val(c, con.b)
  ELSE con.path.root = Val(c, con.a) /\ con.path.leaf = Val(c, con.b)

\* TestConstraintSystem::is_satisfied
is_satisfied(c) == \A k \in 1..Len(c.constraints) : Holds(c, c.constraints[k])

\* The output of a gadget: a witness whose value the gadget computes.
witness(st, name, value) ==
  IF st.err # "ok" THEN st
  ELSE [st EXCEPT !.cs.aux =
          Append(@, [name |-> name, val |-> IF evaluating THEN value ELSE None])]

\* Allocation of names[k..] with values[k..], in order, up to the first error.
RECURSIVE alloc_all(_, _, _, _)
alloc_all(st, names, values, k) ==
  IF k > Len(names) \/ st.err # "ok" THEN st
  ELSE alloc_all(alloc(st, names[k], values[k]), names, values, k + 1)

Vals(c, names) == [k \in 1..Len(names) |-> Val(c, names[k])]

\* PoseidonFunction::hash_md_circuit
hash_md_circuit(st, name, elements) ==
  IF st.err # "ok" THEN st
  ELSE witness(st, name, hash_md(Vals(st.cs, elements), arity))

\* derive_first_layer_leaf
derive_first_layer_leaf(st, name, challenge, layer) ==
  IF st.err # "ok" THEN st
  ELSE witness(st, name, first_layer_leaf(Val(st.cs, "replica_id"), challenge, layer))

\* derive_expander_layer_leaf
derive_expander_layer_leaf(st, name, challenge, layer, parents_data) ==
  IF st.err # "ok" THEN st
  ELSE witness(st, name,
               expander_layer_leaf(Val(st.cs, "replica_id"), challenge, layer,
                                   Vals(st.cs, parents_data)))

(***************************************************************************)
(* NodeProof::synthesize.  layer_leaf is the handle of the derived label,  *)
(* or NoLeaf for the None the caller passes.                               *)
(***************************************************************************)
NoLeaf == ""

node_synthesize(st, ns, proof, comm_d, layer_root, layer_leaf, with_parents) ==
  LET s1 == alloc(st, ns \o "data_leaf", proof.data_leaf)
      s2 == enforce_inclusion(s1, ns \o "data_inclusion", proof.data_path,
                              comm_d, ns \o "data_leaf")
      s3 == IF layer_leaf # NoLeaf
            THEN enforce_inclusion(s2, ns \o "layer_inclusion", proof.layer_path,
                                   layer_root, layer_leaf)
            ELSE s2
  IN s3

(***************************************************************************)
(* NseCircuit::synthesize, step by step.                                   *)
(***************************************************************************)
Advance(st, nextpc, nlp, nli) ==
  /\ cs' = st.cs
  /\ IF st.err = "ok"
     THEN /\ pc' = nextpc
          /\ lp' = nlp
          /\ li' = nli
          /\ result' = IF nextpc = "done" THEN "Ok" ELSE result
     ELSE /\ pc' = "done"
          /\ lp' = lp
          /\ li' = li
          /\ result' = st.err

AllocReplicaId ==
  /\ pc = "replica_id"
  /\ LET s1 == alloc(St(cs), "replica_id", circuit.replica_id)
         s2 == inputize(s1, "replica_id_input", "replica_id")
     IN Advance(s2, "comm_d", lp, li)
  /\ UNCHANGED <<instance, comm_layers_nums, comm_layers_nums_padded, reads>>

\* Variant of AllocCommD: comm_d is allocated but not made a public input.
AllocCommD_private ==
  /\ pc = "comm_d"
  /\ Advance(alloc(St(cs), "comm_d", circuit.comm_d), "comm_r", lp, li)
  /\ UNCHANGED <<instance, comm_layers_nums, comm_layers_nums_padded, reads>>

AllocCommD ==
  /\ pc = "comm_d"
  /\ LET s1 == alloc(St(cs), "comm_d", circuit.comm_d)
         s2 == inputize(s1, "comm_d_input", "comm_d")
     IN Advance(s2, "comm_r", lp, li)
  /\ UNCHANGED <<instance, comm_layers_nums, comm_layers_nums_padded, reads>>

AllocCommR ==
  /\ pc = "comm_r"
  /\ LET s1 == alloc(St(cs), "comm_r", circuit.comm_r)
         s2 == inputize(s1, "comm_r_input", "comm_r")
     IN Advance(s2, "comm_layers", lp, li)
  /\ UNCHANGED <<instance, comm_layers_nums, comm_layers_nums_padded, reads>>

comm_layer_name(k) == "comm_layer_" \o ToString(k)

AllocCommLayers ==
  /\ pc = "comm_layers"
  /\ LET names == [k \in 1..Len(circuit.comm_layers) |-> comm_layer_name(k - 1)]
         s1 == alloc_all(St(cs), names, circuit.comm_layers, 1)
     IN /\ Advance(s1, "pad", lp, li)
        /\ comm_layers_nums' = IF s1.err = "ok" THEN names ELSE comm_layers_nums
  /\ UNCHANGED <<instance, comm_layers_nums_padded, reads>>

\* Variant of pad_loop: at most one padding element is pushed.
pad_once(st, padded, a) ==
  IF Len(padded) % a = 0 THEN [st |-> st, padded |-> padded]
  ELSE LET name == "padding_" \o ToString(Len(padded))
       IN [st |-> alloc(st, name, Zero), padded |-> Append(padded, name)]

\* while comm_layers_nums_padded.len() % arity != 0 { push(alloc(zero)) }
RECURSIVE pad_loop(_, _, _)
pad_loop(st, padded, a) ==
  IF Len(padded) % a = 0 THEN [st |-> st, padded |-> padded]
  ELSE LET name == "padding_" \o ToString(Len(padded))
       IN pad_loop(alloc(st, name, Zero), Append(padded, name), a)

PadCommLayers ==
  /\ pc = "pad"
  /\ LET r == pad_loop(St(cs), comm_layers_nums, arity)
     IN /\ Advance(r.st, "verify", lp, li)
        /\ comm_layers_nums_padded' = r.padded
  /\ UNCHANGED <<instance, comm_layers_nums, reads>>

VerifyCommR ==
  /\ pc = "verify"
  /\ LET s1 == hash_md_circuit(St(cs), "comm_layers_hash", comm_layers_nums_padded)
         s2 == equal(s1, "enforce comm_r = H(comm_layers)", "comm_r", "comm_layers_hash")
     IN IF Len(circuit.layer_proofs) = 0
        THEN Advance(s2, "done", lp, li)
        ELSE Advance(s2, "first", 0, 0)
  /\ UNCHANGED <<instance, comm_layers_nums, comm_layers_nums_padded, reads>>

(***************************************************************************)
(* LayerProof::synthesize, one step per node proof.                        *)
(***************************************************************************)
\* The comm_layers handles NseCircuit::synthesize hands to each layer proof.
layer_proofs_comm_layers == comm_layers_nums

\* The index expressions of the comm_layers_nums reads (from 0).
first_root_index == 0
expander_root_index(layer) == layer - 1
butterfly_root_index(layer, i) == layer - i
\* Variant of last_root_index: the layer number used as the index.
last_root_index_by_number(layer) == layer
last_root_index(layer) == layer - 1

\* &comm_layers_nums[idx]: a panic when idx is out of bounds.
index(st, handed, idx) ==
  IF st.err # "ok" THEN st
  ELSE IF idx >= Len(handed) THEN [st EXCEPT !.err = "panic"]
  ELSE st

entry(handed, idx) == IF idx < Len(handed) THEN handed[idx + 1] ELSE ""

Read(st, cls, idx) ==
  reads' = IF st.err = "ok"
           THEN Append(reads, [lp |-> lp, cls |-> cls, i |-> li, idx |-> idx,
                               name |-> entry(layer_proofs_comm_layers, idx)])
           ELSE reads

lp_ns == "layer_proof_" \o ToString(lp) \o "/"

LP == circuit.layer_proofs[lp + 1]

\* The challenge whose packing is the first public input of a layer proof.
first_layer_challenge(p) == p.first_layer_proof.challenge

AfterButterflies(p) ==
  [pc |-> "last", lp |-> lp, li |-> 0]

AfterExpanders(p) ==
  IF Len(p.butterfly_layer_proofs) > 0
  THEN [pc |-> "butterfly", lp |-> lp, li |-> 0]
  ELSE AfterButterflies(p)

GoTo(st, pos) == Advance(st, pos.pc, pos.lp, pos.li)

FirstLayer ==
  /\ pc = "first"
  /\ LET s1 == pack_into_input(St(cs), lp_ns \o "first_layer_challenge_input",
                               first_layer_challenge(LP))
         s2 == derive_first_layer_leaf(s1, lp_ns \o "first_layer_leaf",
                                       LP.first_layer_proof.challenge, 1)
         s3 == index(s2, layer_proofs_comm_layers, first_root_index)
         s4 == node_synthesize(s3, lp_ns \o "first_layer/", LP.first_layer_proof, "comm_d",
                               entry(layer_proofs_comm_layers, first_root_index),
                               lp_ns \o "first_layer_leaf", FALSE)
     IN /\ Read(s2, "first", first_root_index)
        /\ GoTo(s4, IF Len(LP.expander_layer_proofs) > 0
                    THEN [pc |-> "expander", lp |-> lp, li |-> 0]
                    ELSE AfterExpanders(LP))
  /\ UNCHANGED <<instance, comm_layers_nums, comm_layers_nums_padded>>

ExpanderLayer ==
  /\ pc = "expander"
  /\ LET proof == LP.expander_layer_proofs[li + 1]
         ns == lp_ns \o "expander_layer_" \o ToString(li) \o "/"
         layer == li + 2
         s1 == pack_into_input(St(cs), ns \o "challenge_input", proof.challenge)
         names == [j \in 1..Len(proof.parents) |-> ns \o "parents_data_" \o ToString(j - 1)]
         leaves == [j \in 1..Len(proof.parents) |-> proof.parents[j].leaf]
         s2 == alloc_all(s1, names, leaves, 1)
         s3 == derive_expander_layer_leaf(s2, ns \o "leaf", proof.challenge, layer, names)
         s4 == index(s3, layer_proofs_comm_layers, expander_root_index(layer))
         s5 == node_synthesize(s4, ns \o "proof/", proof, "comm_d",
                               entry(layer_proofs_comm_layers, expander_root_index(layer)),
                               ns \o "leaf", TRUE)
     IN /\ Read(s3, "expander", expander_root_index(layer))
        /\ GoTo(s5, IF li + 1 < Len(LP.expander_layer_proofs)
                    THEN [pc |-> "expander", lp |-> lp, li |-> li + 1]
                    ELSE AfterExpanders(LP))
  /\ UNCHANGED <<instance, comm_layers_nums, comm_layers_nums_padded>>

ButterflyLayer ==
  /\ pc = "butterfly"
  /\ LET proof == LP.butterfly_layer_proofs[li + 1]
         ns == lp_ns \o "butterfly_layer_" \o ToString(li)
         layer == li + config.num_expander_layers + 1
         s1 == pack_into_input(St(cs), ns \o "_challenge_input", proof.challenge)
         s2 == index(s1, layer_proofs_comm_layers, butterfly_root_index(layer, li))
         s3 == node_synthesize(s2, ns \o "/", proof, "comm_d",
                               entry(layer_proofs_comm_layers, butterfly_root_index(layer, li)),
                               NoLeaf, TRUE)
     IN /\ Read(s1, "butterfly", butterfly_root_index(layer, li))
        /\ GoTo(s3, IF li + 1 < Len(LP.butterfly_layer_proofs)
                    THEN [pc |-> "butterfly", lp |-> lp, li |-> li + 1]
                    ELSE AfterButterflies(LP))
  /\ UNCHANGED <<instance, comm_layers_nums, comm_layers_nums_padded>>

LastLayer ==
  /\ pc = "last"
  /\ LET proof == LP.last_layer_proof
         layer == num_layers(config)
         s1 == pack_into_input(St(cs), lp_ns \o "last_layer_challenge_input",
                               proof.challenge)
         s2 == index(s1, layer_proofs_comm_layers, last_root_index(layer))
         s3 == node_synthesize(s2, lp_ns \o "last_layer/", proof, "comm_d",
                               entry(layer_proofs_comm_layers, last_root_index(layer)),
                               NoLeaf, TRUE)
     IN /\ Read(s1, "last", last_root_index(layer))
        /\ GoTo(s3, IF lp + 1 < Len(circuit.layer_proofs)
                    THEN [pc |-> "first", lp |-> lp + 1, li |-> 0]
                    ELSE [pc |-> "done", lp |-> lp, li |-> 0])
  /\ UNCHANGED <<instance, comm_layers_nums, comm_layers_nums_padded>>

(***************************************************************************)
(* The native public-input generator: replica_id, comm_d, comm_r, then for *)
(* every challenge and every layer the challenge index as a field element. *)
(***************************************************************************)
RECURSIVE layer_challenges(_, _, _)
layer_challenges(cfg, lpi, layer) ==
  IF layer > num_layers(cfg) THEN <<>>
  ELSE <<Raw(Challenge(cfg, lpi, layer))>> \o layer_challenges(cfg, lpi, layer + 1)

RECURSIVE all_challenges(_, _, _)
all_challenges(cfg, lpi, n) ==
  IF lpi >= n THEN <<>>
  ELSE layer_challenges(cfg, lpi, 1) \o all_challenges(cfg, lpi + 1, n)

generate_public_inputs(cfg, pub, n) ==
  <<pub.replica_id, pub.comm_d, pub.comm_r>> \o all_challenges(cfg, 0, n)

(***************************************************************************)
(* A second synthesis on a fresh constraint system: of the same circuit    *)
(* (as the test does, MetricCS then TestConstraintSystem), or of a circuit *)
(* that differs from it in one place.                                      *)
(***************************************************************************)
Restart ==
  /\ run = 1
  /\ pc = "done"
  /\ \E d \in Deviations(config, Len(circuit.layer_proofs)), ev \in BOOLEAN :
       /\ IF evaluating
          THEN ev \/ d \in {NoDev} \cup BlankDevs(config)
          ELSE ev /\ d = NoDev
       /\ deviation' = d
       /\ evaluating' = ev
       /\ circuit' = ApplyDev(circuit, d)
  /\ run' = 2
  /\ prev' = [inputs |-> cs.inputs, result |-> result,
              satisfied |-> evaluating /\ is_satisfied(cs)]
  /\ pc' = "replica_id"
  /\ lp' = 0
  /\ li' = 0
  /\ cs' = EmptyCS
  /\ comm_layers_nums' = <<>>
  /\ comm_layers_nums_padded' = <<>>
  /\ reads' = <<>>
  /\ result' = "running"
  /\ UNCHANGED <<config, arity>>

Init ==
  /\ config \in Configs
  /\ arity \in 2..MaxArity
  /\ \E n \in 1..MaxLayerProofs : circuit = HonestCircuit(config, n, arity)
  /\ evaluating \in BOOLEAN
  /\ deviation = NoDev
  /\ run = 1
  /\ prev = [inputs |-> <<>>, result |-> "none", satisfied |-> FALSE]
  /\ pc = "replica_id"
  /\ lp = 0
  /\ li = 0
  /\ cs = EmptyCS
  /\ comm_layers_nums = <<>>
  /\ comm_layers_nums_padded = <<>>
  /\ reads = <<>>
  /\ result = "running"

Next ==
  \/ AllocReplicaId
  \/ AllocCommD
  \/ AllocCommR
  \/ AllocCommLayers
  \/ PadCommLayers
  \/ VerifyCommR
  \/ FirstLayer
  \/ ExpanderLayer
  \/ ButterflyLayer
  \/ LastLayer
  \/ Restart

Spec == Init /\ [][Next]_vars

(***************************************************************************)
(* Properties.                                                             *)
(***************************************************************************)
Names(seq) == [k \in 1..Len(seq) |-> seq[k].name]
Values(seq) == [k \in 1..Len(seq) |-> seq[k].val]
IsPrefix(s, t) == Len(s) <= Len(t) /\ SubSeq(t, 1, Len(s)) = s

NumProofs == Len(circuit.layer_proofs)
NE == config.num_expander_layers
NB == config.num_butterfly_layers

ProofNs(l) == "layer_proof_" \o ToString(l) \o "/"

\* The challenge inputs of one layer proof: first, expanders, butterflies, last.
LayerInputNames(l, p) ==
  <<ProofNs(l) \o "first_layer_challenge_input">>
    \o [n \in 1..Len(p.expander_layer_proofs) |->
          ProofNs(l) \o "expander_layer_" \o ToString(n - 1) \o "/challenge_input"]
    \o [n \in 1..Len(p.butterfly_layer_proofs) |->
          ProofNs(l) \o "butterfly_layer_" \o ToString(n - 1) \o "_challenge_input"]
    \o <<ProofNs(l) \o "last_layer_challenge_input">>

LayerInputValues(p) ==
  <<Raw(p.first_layer_proof.challenge)>>
    \o [n \in 1..Len(p.expander_layer_proofs) |-> Raw(p.expander_layer_proofs[n].challenge)]
    \o [n \in 1..Len(p.butterfly_layer_proofs) |-> Raw(p.butterfly_layer_proofs[n].challenge)]
    \o <<Raw(p.last_layer_proof.challenge)>>

RECURSIVE ChallengeInputNames(_)
ChallengeInputNames(l) ==
  IF l >= NumProofs THEN <<>>
  ELSE LayerInputNames(l, circuit.layer_proofs[l + 1]) \o ChallengeInputNames(l + 1)

RECURSIVE ChallengeInputValues(_)
ChallengeInputValues(l) ==
  IF l >= NumProofs THEN <<>>
  ELSE LayerInputValues(circuit.layer_proofs[l + 1]) \o ChallengeInputValues(l + 1)

ExpectedInputNames ==
  <<"replica_id_input", "comm_d_input", "comm_r_input">> \o ChallengeInputNames(0)

ExpectedInputValues ==
  <<circuit.replica_id, circuit.comm_d, circuit.comm_r>> \o ChallengeInputValues(0)

PubInputs ==
  [replica_id |-> circuit.replica_id, comm_d |-> circuit.comm_d, comm_r |-> circuit.comm_r]

PrivateOnly(d) ==
  \/ d.kind \in {"none", "truncate"}
  \/ d.target \in {"comm_layer", "data_leaf", "parent", "layer_leaf", "private"}

SamePublicInput(a, b) ==
  a.name = b.name /\ (a.val = None \/ b.val = None \/ a.val = b.val)

CommRConstraints ==
  {k \in 1..Len(cs.constraints) :
     cs.constraints[k].name = "enforce comm_r = H(comm_layers)"}

NativeCommR == hash_md(pad(circuit.comm_layers, arity), arity)

\* C3: a successful synthesis has emitted the constraint comm_r = H(comm_layers);
\* under the synthesized assignment that constraint holds exactly when comm_r is
\* the Merkle-Damgard hash of comm_layers right-padded with zeros to a multiple
\* of the arity, and with any other comm_r the constraint system is not satisfied.
C3_CommRIsHashOfPaddedLayers ==
  /\ result = "Ok" => Cardinality(CommRConstraints) = 1
  /\ evaluating =>
       \A k \in CommRConstraints :
         Holds(cs, cs.constraints[k]) <=> (circuit.comm_r = NativeCommR)
  /\ (evaluating /\ result = "Ok" /\ circuit.comm_r # NativeCommR) => ~is_satisfied(cs)

C3_Witness ==
  /\ evaluating
  /\ result = "Ok"
  /\ deviation.kind = "tamper"
  /\ deviation.target \in {"comm_r", "comm_layer"}
  /\ circuit.comm_r # NativeCommR
  /\ ~is_satisfied(cs)

\* The position (from 1) of a node proof within its layer proof.
Position(d) ==
  CASE d.cls = "first" -> 1
    [] d.cls = "expander" -> 2 + d.i
    [] d.cls = "butterfly" -> 2 + NE + d.i
    [] OTHER -> num_layers(config)

\* The absent values the circuit allocates: every one but the parent leaves of
\* butterfly and last-layer node proofs, which synthesis never reads.
Needed(d) ==
  d.kind = "absent" /\ ~(d.target = "parent" /\ d.cls \in {"butterfly", "last"})

\* Public inputs allocated, and comm_layers entries read, before the first
\* allocation of an absent value.
InputsBefore(d) ==
  CASE d.target = "replica_id" -> 0
    [] d.target = "comm_d" -> 1
    [] d.target = "comm_r" -> 2
    [] d.target \in {"comm_layer", "private"} -> 3
    [] OTHER -> 3 + d.lp * num_layers(config) + Position(d)

ReadsBefore(d) ==
  CASE d.target \in {"replica_id", "comm_d", "comm_r", "comm_layer", "private"} -> 0
    [] d.target = "data_leaf" -> d.lp * num_layers(config) + Position(d)
    [] OTHER -> d.lp * num_layers(config) + Position(d) - 1

\* Witnesses allocated before the first allocation of an absent value, for the
\* values allocated by NseCircuit::synthesize itself.
AuxBefore(d) ==
  CASE d.target = "replica_id" -> 0
    [] d.target = "comm_d" -> 1
    [] d.target = "comm_r" -> 2
    [] d.target = "comm_layer" -> 3 + d.i
    [] OTHER -> 3

C5_EveryLayerLabelEnforced ==
  (evaluating /\ result = "Ok" /\ deviation.kind = "tamper"
     /\ deviation.target = "layer_leaf") => ~is_satisfied(cs)

\* The node proofs synthesized with parent openings, by namespace.
ExpanderNs(l, n) == ProofNs(l) \o "expander_layer_" \o ToString(n) \o "/"
ButterflyNs(l, n) == ProofNs(l) \o "butterfly_layer_" \o ToString(n) \o "/"
LastNs(l) == ProofNs(l) \o "last_layer/"

ParentAuthenticated(ns, j) ==
  \E k \in 1..Len(cs.constraints) :
    /\ cs.constraints[k].kind = "inclusion"
    /\ cs.constraints[k].b = ns \o "parents_data_" \o ToString(j - 1)

\* C6: for every node proof synthesized with parent openings (expander,
\* butterfly, last layer), each parent value is the leaf of a Merkle inclusion
\* constraint.
C6_ParentConsistencyEnforced ==
  result = "Ok" =>
    \A l \in 0..NumProofs - 1 :
      LET p == circuit.layer_proofs[l + 1] IN
        /\ \A n \in 1..Len(p.expander_layer_proofs) :
             \A j \in 1..Len(p.expander_layer_proofs[n].parents) :
               ParentAuthenticated(ExpanderNs(l, n - 1), j)
        /\ \A n \in 1..Len(p.butterfly_layer_proofs) :
             \A j \in 1..Len(p.butterfly_layer_proofs[n].parents) :
               ParentAuthenticated(ButterflyNs(l, n - 1), j)
        /\ \A j \in 1..Len(p.last_layer_proof.parents) :
             ParentAuthenticated(LastNs(l), j)

\* C7: starting from a circuit that is satisfied, changing one data leaf or one
\* parent leaf of any node proof yields a circuit that is not satisfied.
C7_TamperDetected ==
  (run = 2 /\ prev.satisfied /\ evaluating /\ pc = "done"
     /\ deviation.kind = "tamper" /\ deviation.target \in {"data_leaf", "parent"})
    => ~(result = "Ok" /\ is_satisfied(cs))

\* C8: the i-th butterfly node proof receives the comm_layers entry of index
\* num_expander_layers + 1 + i, so no two butterfly layers receive the same
\* entry and none receives the entry of an expander layer or of the last layer.
C8_ButterflyLayerRoot ==
  \A k \in 1..Len(reads) :
    reads[k].cls = "butterfly" =>
      /\ reads[k].idx = NE + 1 + reads[k].i
      /\ \A m \in 1..Len(reads) :
           (m # k /\ reads[m].lp = reads[k].lp) => reads[m].idx # reads[k].idx

PadDone ==
  /\ pc \notin {"replica_id", "comm_d", "comm_r", "comm_layers", "pad"}
  /\ comm_layers_nums # <<>>

WellFormed ==
  /\ Len(circuit.comm_layers) = num_layers(config)
  /\ \A l \in 1..NumProofs :
       /\ Len(circuit.layer_proofs[l].expander_layer_proofs) = NE
       /\ Len(circuit.layer_proofs[l].butterfly_layer_proofs) = NB

\* C10: when comm_layers has num_layers entries and every layer proof carries
\* num_expander_layers expander and num_butterfly_layers butterfly node proofs,
\* every comm_layers index read is in range (no panic), the first layer reads
\* entry 0, expander layer i reads entry i + 1 and the last layer reads the
\* final entry.
C10_CommLayersReadsInRange ==
  WellFormed =>
    /\ result # "panic"
    /\ \A k \in 1..Len(reads) :
         /\ reads[k].idx >= 0
         /\ reads[k].idx < Len(comm_layers_nums)
         /\ reads[k].cls = "first" => reads[k].idx = 0
         /\ reads[k].cls = "expander" => reads[k].idx = reads[k].i + 1
         /\ reads[k].cls = "last" => reads[k].idx = Len(circuit.comm_layers) - 1

C10_Witness ==
  /\ WellFormed
  /\ result = "Ok"
  /\ NE = 2
  /\ NB = 2
  /\ NumProofs = 2
  /\ Len(reads) = 2 * num_layers(config)

====
